---- MODULE Spec2Model ----
(***************************************************************************)
(* Model of the arXiv query-parameter validation of mcp-server-papers      *)
(* (src/mcp_server_papers/utils.py).                                       *)
(*                                                                         *)
(* Python str values are TLA+ strings; TLC evaluates Len, SubSeq and \o on *)
(* them, so a character of s is SubSeq(s, i, i).  A Python call either     *)
(* returns a value or raises ValueError(msg): Return(v) / Raise(msg).      *)
(* Messages are the literal texts the code builds.                         *)
(***************************************************************************)
EXTENDS Integers, Sequences, FiniteSets, TLC

VARIABLES fn, arg, pc, ret, validated_params, sent

vars == <<fn, arg, pc, ret, validated_params, sent>>

(***************************************************************************)
(* Python values and outcomes                                              *)
(***************************************************************************)
PyStr(s) == [type |-> "str", v |-> s]
PyInt(n) == [type |-> "int", v |-> n]
PyDict(d) == [type |-> "dict", v |-> d]

Return(v) == [tag |-> "return", value |-> v]
Raise(m) == [tag |-> "raise", msg |-> m]
NoResult == [tag |-> "none"]

(***************************************************************************)
(* Characters and str primitives                                           *)
(***************************************************************************)
\* s[i:i+1] with 1-based i: the character at i, or "" outside s
At(s, i) == IF i >= 1 /\ i <= Len(s) THEN SubSeq(s, i, i) ELSE ""

Chars(s) == {At(s, i) : i \in 1..Len(s)}

\* printable ASCII in code-point order: 32..95, then 97..126 (the grave
\* accent, code 96, cannot be written in a TLA+ string and is left out)
AsciiTo95 == " !\"#$%&'()*+,-./0123456789:;<=>?@ABCDEFGHIJKLMNOPQRSTUVWXYZ[\\]^_"
AsciiFrom97 == "abcdefghijklmnopqrstuvwxyz{|}~"

LowerCase == "abcdefghijklmnopqrstuvwxyz"
UpperCase == "ABCDEFGHIJKLMNOPQRSTUVWXYZ"
Digits == "0123456789"

LowerSet == Chars(LowerCase)
UpperSet == Chars(UpperCase)
DigitSet == Chars(Digits)

\* regex \w on the modelled alphabet: [a-zA-Z0-9_]
WordChars == LowerSet \cup UpperSet \cup DigitSet \cup {"_"}

\* str.isspace() characters that str.strip() and int() remove
Whitespace == {" ", "\t", "\n", "\r", "\f"}

IndexIn(table, c) == CHOOSE i \in 1..Len(table) : At(table, i) = c

\* ord(c) for printable ASCII
Ord(c) ==
  IF c \in Chars(AsciiTo95) THEN 31 + IndexIn(AsciiTo95, c)
  ELSE 96 + IndexIn(AsciiFrom97, c)

ToUpperMap == [c \in LowerSet |-> At(UpperCase, IndexIn(LowerCase, c))]

DigitValue == [c \in DigitSet |-> IndexIn(Digits, c) - 1]

\* str.upper()
RECURSIVE upper(_)
upper(s) ==
  IF s = "" THEN ""
  ELSE LET c == At(s, 1)
       IN (IF c \in LowerSet THEN ToUpperMap[c] ELSE c) \o upper(Tail(s))

\* sub in s
Contains(s, sub) ==
  \E i \in 1..(Len(s) - Len(sub) + 1) : SubSeq(s, i, i + Len(sub) - 1) = sub

\* sep.join(parts)
RECURSIVE Join(_, _)
Join(parts, sep) ==
  IF Len(parts) = 0 THEN ""
  ELSE IF Len(parts) = 1 THEN parts[1]
  ELSE parts[1] \o sep \o Join(Tail(parts), sep)

\* a < b for str (code-point lexicographic order)
RECURSIVE StrLess(_, _)
StrLess(a, b) ==
  IF b = "" THEN FALSE
  ELSE IF a = "" THEN TRUE
  ELSE IF At(a, 1) = At(b, 1) THEN StrLess(Tail(a), Tail(b))
  ELSE Ord(At(a, 1)) < Ord(At(b, 1))

\* sorted(S) for a set of str
RECURSIVE sorted(_)
sorted(S) ==
  IF S = {} THEN <<>>
  ELSE LET m == CHOOSE x \in S : \A y \in S \ {x} : StrLess(x, y)
       IN <<m>> \o sorted(S \ {m})

\* s.find(c, from) with 1-based indices: the first index >= from of the
\* character c in s, or 0
RECURSIVE find(_, _, _)
find(s, c, from) ==
  IF from > Len(s) THEN 0
  ELSE IF SubSeq(s, from, from) = c THEN from
  ELSE find(s, c, from + 1)

\* str.split(sep) for a one-character sep
RECURSIVE split(_, _)
split(s, sep) ==
  LET i == find(s, sep, 1)
  IN IF i = 0 THEN <<s>>
     ELSE <<SubSeq(s, 1, i - 1)>> \o split(SubSeq(s, i + 1, Len(s)), sep)

\* str.strip()
RECURSIVE lstrip(_)
lstrip(s) == IF s # "" /\ At(s, 1) \in Whitespace THEN lstrip(Tail(s)) ELSE s

RECURSIVE rstrip(_)
rstrip(s) ==
  IF s # "" /\ At(s, Len(s)) \in Whitespace
  THEN rstrip(SubSeq(s, 1, Len(s) - 1)) ELSE s

strip(s) == rstrip(lstrip(s))

\* the orders in which a Python set may be iterated (str hashing is salted
\* per process, so no order is fixed by the source)
IterationOrders(S) ==
  {q \in [1..Cardinality(S) -> S] : \A i, j \in DOMAIN q : i # j => q[i] # q[j]}

(***************************************************************************)
(* validate_search_query                                                   *)
(***************************************************************************)
VALID_PREFIXES == {"ti", "au", "abs", "co", "jr", "cat", "rn", "id", "all"}
VALID_OPERATORS == {"AND", "OR", "ANDNOT"}

\* sorted(VALID_PREFIXES)
sorted_VALID_PREFIXES == sorted(VALID_PREFIXES)

\* the end of the longest run of word characters of s starting at pos
\* (pos - 1 when s[pos] is no word character)
RECURSIVE WordRunEnd(_, _)
WordRunEnd(s, pos) ==
  IF pos <= Len(s) /\ At(s, pos) \in WordChars
  THEN WordRunEnd(s, pos + 1) ELSE pos - 1

\* re.findall of field_pattern (a greedy run of word characters, captured,
\* then a colon) scanning s from pos: leftmost non-overlapping matches
RECURSIVE findall_fields(_, _)
findall_fields(s, pos) ==
  IF pos > Len(s) THEN <<>>
  ELSE LET e == WordRunEnd(s, pos)
       IN IF e >= pos /\ e < Len(s) /\ At(s, e + 1) = ":"
          THEN <<SubSeq(s, pos, e)>> \o findall_fields(s, e + 2)
          ELSE findall_fields(s, pos + 1)

\* only the first field is tested
check_fields_first_only(fields) ==
  IF Len(fields) = 0 THEN NoResult
  ELSE IF fields[1] \notin VALID_PREFIXES
  THEN Raise("Invalid field prefix '" \o fields[1] \o "'. Valid prefixes: "
             \o Join(sorted_VALID_PREFIXES, ", "))
  ELSE NoResult

\* the loop over fields: the first field outside VALID_PREFIXES raises
RECURSIVE check_fields(_)
check_fields(fields) ==
  IF Len(fields) = 0 THEN NoResult
  ELSE IF fields[1] \notin VALID_PREFIXES
  THEN Raise("Invalid field prefix '" \o fields[1] \o "'. Valid prefixes: "
             \o Join(sorted_VALID_PREFIXES, ", "))
  ELSE check_fields(Tail(fields))

\* only the separator before the operator is looked for
operator_fails_left_only(query, operator) ==
  /\ Contains(upper(query), operator)
  /\ ~Contains(query, " " \o operator)
  /\ ~Contains(query, "+" \o operator)

\* the body of the loop over VALID_OPERATORS for one operator
operator_fails(query, operator) ==
  /\ Contains(upper(query), operator)
  /\ ~Contains(query, " " \o operator \o " ")
  /\ ~Contains(query, "+" \o operator \o "+")

\* the loop over VALID_OPERATORS, iterated in the order ops
RECURSIVE check_operators(_, _)
check_operators(query, ops) ==
  IF Len(ops) = 0 THEN NoResult
  ELSE IF operator_fails(query, ops[1])
  THEN Raise("Boolean operator '" \o ops[1]
             \o "' should be surrounded by spaces or + signs")
  ELSE check_operators(query, Tail(ops))

validate_search_query(query, ops) ==
  LET f == check_fields(findall_fields(query, 1))
      o == check_operators(query, ops)
  IN IF f.tag = "raise" THEN f
     ELSE IF o.tag = "raise" THEN o
     ELSE Return(PyStr(query))

(***************************************************************************)
(* validate_id_list                                                        *)
(***************************************************************************)
\* the end of the longest run of characters of class in s starting at pos
RECURSIVE RunEnd(_, _, _)
RunEnd(s, pos, class) ==
  IF pos <= Len(s) /\ At(s, pos) \in class
  THEN RunEnd(s, pos + 1, class) ELSE pos - 1

AllIn(s, from, to, class) == \A i \in from..to : At(s, i) \in class

\* regex $ (no MULTILINE): the end of s, or just before a final newline
AtEnd(s, pos) == pos = Len(s) + 1 \/ (pos = Len(s) /\ At(s, pos) = "\n")

\* the tail (v\d+)?$ of both patterns, matched from pos
VersionThenEnd(s, pos) ==
  \/ AtEnd(s, pos)
  \/ /\ At(s, pos) = "v"
     /\ LET e == RunEnd(s, pos + 1, DigitSet)
        IN e >= pos + 1 /\ AtEnd(s, e + 1)

\* re.match(OLD_PATTERN, s):  ^[a-z-]+(\.[A-Z]{2})?/\d{7}(v\d+)?$
match_OLD_PATTERN(s) ==
  LET e == RunEnd(s, 1, LowerSet \cup {"-"})
      sub == At(s, e + 1) = "." /\ AllIn(s, e + 2, e + 3, UpperSet)
      p == IF sub THEN e + 4 ELSE e + 1
  IN /\ e >= 1
     /\ At(s, p) = "/"
     /\ AllIn(s, p + 1, p + 7, DigitSet)
     /\ VersionThenEnd(s, p + 8)

\* the number part is not bounded above
match_NEW_PATTERN_unbounded(s) ==
  /\ AllIn(s, 1, 4, DigitSet)
  /\ At(s, 5) = "."
  /\ LET e == RunEnd(s, 6, DigitSet)
     IN e >= 9 /\ VersionThenEnd(s, e + 1)

\* re.match(NEW_PATTERN, s):  ^\d{4}\.\d{4,5}(v\d+)?$
match_NEW_PATTERN(s) ==
  /\ AllIn(s, 1, 4, DigitSet)
  /\ At(s, 5) = "."
  /\ \E n \in {4, 5} : AllIn(s, 6, 5 + n, DigitSet) /\ VersionThenEnd(s, 6 + n)

\* [id.strip() for id in id_list.split(',')]
RECURSIVE strip_each(_)
strip_each(parts) ==
  IF Len(parts) = 0 THEN <<>>
  ELSE <<strip(parts[1])>> \o strip_each(Tail(parts))

\* the loop over ids: the first empty or ill-formed member raises
RECURSIVE check_ids(_)
check_ids(ids) ==
  IF Len(ids) = 0 THEN NoResult
  ELSE IF ids[1] = "" THEN Raise("Empty arXiv ID in id_list")
  ELSE IF ~(match_OLD_PATTERN(ids[1]) \/ match_NEW_PATTERN(ids[1]))
  THEN Raise("Invalid arXiv ID format: '" \o ids[1]
             \o "'. Expected formats: 'YYMM.NNNN[vN]' or 'subject-class/YYMMnnn[vN]'")
  ELSE check_ids(Tail(ids))

validate_id_list(id_list) ==
  LET c == check_ids(strip_each(split(id_list, ",")))
  IN IF c.tag = "raise" THEN c ELSE Return(PyStr(id_list))

(***************************************************************************)
(* validate_start, validate_max_results                                    *)
(***************************************************************************)
\* repr(s) of a str: quotes chosen as Python does, the usual escapes
RECURSIVE repr_body(_, _)
repr_body(s, quote) ==
  IF s = "" THEN ""
  ELSE LET c == At(s, 1)
           e == IF c = "\\" THEN "\\\\"
                ELSE IF c = quote THEN "\\" \o c
                ELSE IF c = "\n" THEN "\\n"
                ELSE IF c = "\t" THEN "\\t"
                ELSE IF c = "\r" THEN "\\r"
                ELSE IF c = "\f" THEN "\\x0c"
                ELSE c
       IN e \o repr_body(Tail(s), quote)

repr(s) ==
  LET quote == IF Contains(s, "'") /\ ~Contains(s, "\"") THEN "\"" ELSE "'"
  IN quote \o repr_body(s, quote) \o quote

\* the digits of an int literal: digits, single underscores only between them
IsDigitBody(b) ==
  /\ b # ""
  /\ \A i \in 1..Len(b) : At(b, i) \in DigitSet \cup {"_"}
  /\ At(b, 1) # "_" /\ At(b, Len(b)) # "_"
  /\ ~Contains(b, "__")

RECURSIVE DigitsValue(_, _)
DigitsValue(b, acc) ==
  IF b = "" THEN acc
  ELSE IF At(b, 1) = "_" THEN DigitsValue(Tail(b), acc)
  ELSE DigitsValue(Tail(b), 10 * acc + DigitValue[At(b, 1)])

\* int(s): surrounding whitespace, an optional sign, base-10 digits
py_int(s) ==
  LET t == strip(s)
      signed == At(t, 1) \in {"+", "-"}
      body == IF signed THEN Tail(t) ELSE t
      magnitude == DigitsValue(body, 0)
  IN IF IsDigitBody(body)
     THEN Return(PyInt(IF At(t, 1) = "-" THEN 0 - magnitude ELSE magnitude))
     ELSE Raise("invalid literal for int() with base 10: " \o repr(s))

\* except ValueError as e: a failed conversion is reworded, anything else
\* is raised again
reword_invalid_literal(r, message) ==
  IF r.tag = "raise"
  THEN IF Contains(r.msg, "invalid literal") THEN Raise(message) ELSE r
  ELSE r

validate_start(start_str) ==
  LET start == py_int(start_str)
      tried == IF start.tag = "raise" THEN start
               ELSE IF start.value.v < 0
               THEN Raise("'start' must be non-negative")
               ELSE start
  IN reword_invalid_literal(tried, "'start' must be a valid integer")

MAX_RESULTS_LIMIT == 2000

\* the limit itself is refused
validate_max_results_limit_excluded(max_results_str) ==
  LET max_results == py_int(max_results_str)
      tried == IF max_results.tag = "raise" THEN max_results
               ELSE IF max_results.value.v <= 0
               THEN Raise("'max_results' must be positive")
               ELSE IF max_results.value.v >= MAX_RESULTS_LIMIT
               THEN Raise("'max_results' cannot exceed 2000 (arXiv API limit)")
               ELSE max_results
  IN reword_invalid_literal(tried, "'max_results' must be a valid integer")

validate_max_results(max_results_str) ==
  LET max_results == py_int(max_results_str)
      tried == IF max_results.tag = "raise" THEN max_results
               ELSE IF max_results.value.v <= 0
               THEN Raise("'max_results' must be positive")
               ELSE IF max_results.value.v > MAX_RESULTS_LIMIT
               THEN Raise("'max_results' cannot exceed 2000 (arXiv API limit)")
               ELSE max_results
  IN reword_invalid_literal(tried, "'max_results' must be a valid integer")

(***************************************************************************)
(* validate_sort_by, validate_sort_order                                   *)
(***************************************************************************)
VALID_SORT_BY == {"relevance", "lastUpdatedDate", "submittedDate"}
VALID_SORT_ORDER == {"ascending", "descending"}

\* the options in the order the set literal writes them
VALID_SORT_BY_as_written == <<"relevance", "lastUpdatedDate", "submittedDate">>

sorted_VALID_SORT_BY == sorted(VALID_SORT_BY)
sorted_VALID_SORT_ORDER == sorted(VALID_SORT_ORDER)

validate_sort_by(sort_by) ==
  IF sort_by \notin VALID_SORT_BY
  THEN Raise("Invalid 'sortBy' value '" \o sort_by \o "'. Valid options: "
             \o Join(sorted_VALID_SORT_BY, ", "))
  ELSE Return(PyStr(sort_by))

validate_sort_order(sort_order) ==
  IF sort_order \notin VALID_SORT_ORDER
  THEN Raise("Invalid 'sortOrder' value '" \o sort_order \o "'. Valid options: "
             \o Join(sorted_VALID_SORT_ORDER, ", "))
  ELSE Return(PyStr(sort_order))

(***************************************************************************)
(* parse_qs (urllib.parse), as validate_arxiv_params calls it:             *)
(* keep_blank_values and strict_parsing off, separator '&'                 *)
(***************************************************************************)
HexDigits == "0123456789abcdefABCDEF"
HexValue(c) ==
  LET i == IndexIn(HexDigits, c) IN IF i <= 16 THEN i - 1 ELSE i - 7

\* stands for every decoded character outside the modelled alphabet
OtherChar == "?"

\* chr(code) for one decoded byte
Chr(code) ==
  IF code >= 32 /\ code <= 95 THEN At(AsciiTo95, code - 31)
  ELSE IF code >= 97 /\ code <= 126 THEN At(AsciiFrom97, code - 96)
  ELSE IF code = 9 THEN "\t"
  ELSE IF code = 10 THEN "\n"
  ELSE IF code = 12 THEN "\f"
  ELSE IF code = 13 THEN "\r"
  ELSE OtherChar

\* s.replace('+', ' ')
RECURSIVE plus_to_space(_)
plus_to_space(s) ==
  IF s = "" THEN ""
  ELSE (IF At(s, 1) = "+" THEN " " ELSE At(s, 1)) \o plus_to_space(Tail(s))

\* unquote(s): %XX with two hex digits is decoded, any other % is kept
RECURSIVE unquote(_)
unquote(s) ==
  IF s = "" THEN ""
  ELSE IF /\ At(s, 1) = "%" /\ Len(s) >= 3
          /\ At(s, 2) \in Chars(HexDigits) /\ At(s, 3) \in Chars(HexDigits)
  THEN Chr(16 * HexValue(At(s, 2)) + HexValue(At(s, 3)))
       \o unquote(SubSeq(s, 4, Len(s)))
  ELSE At(s, 1) \o unquote(Tail(s))

\* name_value.split('=', 1)
split_once(s, sep) ==
  LET i == find(s, sep, 1)
  IN IF i = 0 THEN <<s>>
     ELSE <<SubSeq(s, 1, i - 1), SubSeq(s, i + 1, Len(s))>>

\* fields with an empty value, or with no '=', are kept with the value ''
RECURSIVE parse_fields_keep_blank(_)
parse_fields_keep_blank(fields) ==
  IF Len(fields) = 0 THEN <<>>
  ELSE LET nv == split_once(fields[1], "=")
           rest == parse_fields_keep_blank(Tail(fields))
       IN IF fields[1] = "" THEN rest
          ELSE <<<<unquote(plus_to_space(nv[1])),
                   IF Len(nv) = 2 THEN unquote(plus_to_space(nv[2])) ELSE "">>>>
               \o rest

\* parse_qsl over the '&'-separated fields: a field without '=' or with an
\* empty value is skipped; names and values are decoded
RECURSIVE parse_fields(_)
parse_fields(fields) ==
  IF Len(fields) = 0 THEN <<>>
  ELSE LET nv == split_once(fields[1], "=")
           rest == parse_fields(Tail(fields))
       IN IF fields[1] = "" \/ Len(nv) # 2 THEN rest
          ELSE IF Len(nv[2]) = 0 THEN rest
          ELSE <<<<unquote(plus_to_space(nv[1])),
                   unquote(plus_to_space(nv[2]))>>>> \o rest

parse_qsl(qs) == parse_fields(split(qs, "&"))

\* the values of name among pairs, the last one first
RECURSIVE values_of_last_first(_, _)
values_of_last_first(pairs, name) ==
  IF Len(pairs) = 0 THEN <<>>
  ELSE values_of_last_first(Tail(pairs), name)
       \o (IF pairs[1][1] = name THEN <<pairs[1][2]>> ELSE <<>>)

\* the values of name among pairs, in order
RECURSIVE values_of(_, _)
values_of(pairs, name) ==
  IF Len(pairs) = 0 THEN <<>>
  ELSE (IF pairs[1][1] = name THEN <<pairs[1][2]>> ELSE <<>>)
       \o values_of(Tail(pairs), name)

\* parse_qs: a dict from each name to the list of its values
parse_qs(qs) ==
  LET pairs == parse_qsl(qs)
  IN [name \in {pairs[i][1] : i \in 1..Len(pairs)} |-> values_of(pairs, name)]

(***************************************************************************)
(* validate_arxiv_params                                                   *)
(***************************************************************************)
known_params ==
  {"search_query", "id_list", "start", "max_results", "sortBy", "sortOrder"}

\* the if statements in the opposite order
dispatch_order_reversed ==
  <<"sortOrder", "sortBy", "max_results", "start", "id_list", "search_query">>

\* the names the field dispatch tests for, in the order of its if statements
dispatch_order ==
  <<"search_query", "id_list", "start", "max_results", "sortBy", "sortOrder">>

\* the difference taken the wrong way round
unknown_params_reversed(parsed) == known_params \ (DOMAIN parsed)

\* set(parsed.keys()) - known_params
unknown_params(parsed) == (DOMAIN parsed) \ known_params

\* only an empty query is rejected
missing_required_if_empty(parsed) == DOMAIN parsed = {}

\* if not has_search_query and not has_id_list
missing_required(parsed) ==
  "search_query" \notin DOMAIN parsed /\ "id_list" \notin DOMAIN parsed

\* the first raise among the outcomes, or NoResult
RECURSIVE first_raise(_)
first_raise(outcomes) ==
  IF Len(outcomes) = 0 THEN NoResult
  ELSE IF outcomes[1].tag = "raise" THEN outcomes[1]
  ELSE first_raise(Tail(outcomes))

\* only the two required parameters are stored
validated_required_only(outcome) ==
  [name \in (DOMAIN outcome) \cap {"search_query", "id_list"} |->
     outcome[name].value]

\* the dict validated once every field validator has returned
validated_dict(outcome) == [name \in DOMAIN outcome |-> outcome[name].value]

\* the body of validate_arxiv_params after parsed = parse_qs(params).
\* ops: the iteration order of VALID_OPERATORS; unknown_order: the
\* iteration order of the set unknown_params
validate_parsed(parsed, ops, unknown_order) ==
  LET field(name) == parsed[name][1]
      outcome ==
        [name \in (DOMAIN parsed) \cap {dispatch_order[i] : i \in 1..6} |->
           CASE name = "search_query" -> validate_search_query(field(name), ops)
             [] name = "id_list" -> validate_id_list(field(name))
             [] name = "start" -> validate_start(field(name))
             [] name = "max_results" -> validate_max_results(field(name))
             [] name = "sortBy" -> validate_sort_by(field(name))
             [] name = "sortOrder" -> validate_sort_order(field(name))]
      dispatch ==
        SelectSeq(dispatch_order, LAMBDA name : name \in DOMAIN parsed)
      failed == first_raise([i \in 1..Len(dispatch) |-> outcome[dispatch[i]]])
      tried ==
        IF missing_required(parsed)
        THEN Raise("Either 'search_query' or 'id_list' parameter is required")
        ELSE IF failed.tag = "raise" THEN failed
        ELSE IF unknown_params(parsed) # {}
        THEN Raise("Unknown parameters: " \o Join(unknown_order, ", "))
        ELSE Return(PyDict(validated_dict(outcome)))
  IN IF tried.tag = "raise"
     THEN Raise("Parameter validation failed: " \o tried.msg)
     ELSE tried

validate_arxiv_params(params, ops, unknown_order) ==
  validate_parsed(parse_qs(params), ops, unknown_order)

(***************************************************************************)
(* send_query (server.py): validate, then GET the search API               *)
(***************************************************************************)
\* the f-string that builds url from params
request_url(params) == "http://export.arxiv.org/api/query?" \o params

\* the validation error is swallowed and the request goes out anyway
caught_ValueError_never(validated) == FALSE

\* validate_arxiv_params raised: control is in the except ValueError clause
caught_ValueError(validated) == validated.tag = "raise"

\* str() of a non-negative int, as the f-string formats status_code
RECURSIVE format_int(_)
format_int(n) ==
  IF n < 10 THEN At(Digits, n + 1)
  ELSE format_int(n \div 10) \o At(Digits, (n % 10) + 1)

\* what client.get and raise_for_status can produce: a response whose
\* status is a success, one whose status is an error, a transport error
Responses ==
  {[kind |-> "response", status_code |-> 200, text |-> "<feed></feed>"],
   [kind |-> "response", status_code |-> 200, text |-> ""],
   [kind |-> "response", status_code |-> 400, text |-> "bad request"],
   [kind |-> "response", status_code |-> 503, text |-> ""],
   [kind |-> "RequestError", message |-> "timed out"],
   [kind |-> "RequestError", message |-> ""]}

\* Response.is_error, which raise_for_status tests
is_error(status_code) == 400 <= status_code /\ status_code <= 599

\* the outcome of send_query once the GET has been answered
send_query_outcome(r) ==
  IF r.kind = "RequestError"
  THEN Raise("Failed to query arXiv API: " \o r.message)
  ELSE IF is_error(r.status_code)
  THEN Raise("arXiv API returned error: " \o format_int(r.status_code))
  ELSE Return(PyStr(r.text))

(***************************************************************************)
(* Inputs                                                                  *)
(***************************************************************************)
MaxQueryTokens == 3
MaxIdTokens == 3
MaxIntTokens == 4
MaxEnumTokens == 2
MaxFields == 2
MaxQueryFields == 1

RECURSIVE Concat(_)
Concat(parts) == IF Len(parts) = 0 THEN "" ELSE parts[1] \o Concat(Tail(parts))

TokenSeqs(T, n) == UNION {[1..k -> T] : k \in 0..n}

QueryTokens ==
  {"ti:a", "au:victor", "ti:sandy", "foo:b", "TI:c",
   " AND ", "+AND+", "AND", " OR ", "OR", " ANDNOT ", "+ANDNOT+", "ANDNOT"}

IdTokens ==
  {"2301.00001", "2301.", "0001", "1", "v", "v1", ",", " ",
   "math.GT/0309136", "math", ".gt", "/0309136"}

IntTokens == {"0", "1", "2", "-", "+", " ", "_", "a"}

EnumTokens ==
  {"relevance", "lastUpdatedDate", "submittedDate", "ascending", "descending",
   "random", "Relevance", " "}

FieldTokens ==
  {"search_query=ti:quantum", "search_query=ti:a+AND+ti:b",
   "search_query=foo:x", "search_query=",
   "id_list=math.GT/0309136v1,2301.00001", "id_list=2301.1",
   "start=-1", "start=+0", "max_results=5", "max_results=abc", "max_results=",
   "sortBy=relevance",
   "sortBy=random", "sortOrder=up", "foo=bar", "bar=1", "foo=", "foo"}

\* a raw query is MaxFields or fewer fields, alone or after a valid
\* search_query field
FieldHeads == {<<>>, <<"search_query=ti:a">>}

SearchQueryInputs == {Concat(q) : q \in TokenSeqs(QueryTokens, MaxQueryTokens)}
IdListInputs == {Concat(q) : q \in TokenSeqs(IdTokens, MaxIdTokens)}
IntInputs == {Concat(q) : q \in TokenSeqs(IntTokens, MaxIntTokens)}
EnumInputs == {Concat(q) : q \in TokenSeqs(EnumTokens, MaxEnumTokens)}
ParamsInputs ==
  {Join(h \o q, "&") : h \in FieldHeads, q \in TokenSeqs(FieldTokens, MaxFields)}

SendQueryInputs ==
  {Join(h \o q, "&") : h \in FieldHeads,
                       q \in TokenSeqs(FieldTokens, MaxQueryFields)}

OperatorOrders == IterationOrders(VALID_OPERATORS)

(***************************************************************************)
(* One call of one function on one input                                   *)
(***************************************************************************)
Init ==
  /\ pc = "call"
  /\ ret = NoResult
  /\ validated_params = NoResult
  /\ sent = <<>>
  /\ \/ fn = "validate_search_query" /\ arg \in SearchQueryInputs
     \/ fn = "validate_id_list" /\ arg \in IdListInputs
     \/ fn = "validate_start" /\ arg \in IntInputs
     \/ fn = "validate_max_results" /\ arg \in IntInputs
     \/ fn = "validate_sort_by" /\ arg \in EnumInputs
     \/ fn = "validate_sort_order" /\ arg \in EnumInputs
     \/ fn = "validate_arxiv_params" /\ arg \in ParamsInputs
     \/ fn = "send_query" /\ arg \in SendQueryInputs

Finish(outcome) ==
  /\ ret' = outcome
  /\ pc' = "done"
  /\ UNCHANGED <<fn, arg, validated_params, sent>>

ValidateSearchQuery ==
  /\ pc = "call" /\ fn = "validate_search_query"
  /\ \E ops \in OperatorOrders : Finish(validate_search_query(arg, ops))

ValidateIdList ==
  /\ pc = "call" /\ fn = "validate_id_list"
  /\ Finish(validate_id_list(arg))

ValidateStart ==
  /\ pc = "call" /\ fn = "validate_start"
  /\ Finish(validate_start(arg))

ValidateMaxResults ==
  /\ pc = "call" /\ fn = "validate_max_results"
  /\ Finish(validate_max_results(arg))

ValidateSortBy ==
  /\ pc = "call" /\ fn = "validate_sort_by"
  /\ Finish(validate_sort_by(arg))

ValidateSortOrder ==
  /\ pc = "call" /\ fn = "validate_sort_order"
  /\ Finish(validate_sort_order(arg))

ValidateArxivParams ==
  /\ pc = "call" /\ fn = "validate_arxiv_params"
  /\ LET parsed == parse_qs(arg)
     IN \E unknown_order \in IterationOrders(unknown_params(parsed)) :
          \E ops \in OperatorOrders :
            Finish(validate_parsed(parsed, ops, unknown_order))

\* send_query up to its await: validation, then either the except clause
\* or the GET of the url built from params
SendQueryValidate ==
  /\ pc = "call" /\ fn = "send_query"
  /\ LET parsed == parse_qs(arg)
     IN \E unknown_order \in IterationOrders(unknown_params(parsed)) :
          \E ops \in OperatorOrders :
            LET validated == validate_parsed(parsed, ops, unknown_order)
            IN /\ validated_params' = validated
               /\ IF caught_ValueError(validated)
                  THEN /\ ret' = Raise("Invalid query parameters: "
                                        \o validated.msg)
                       /\ pc' = "done"
                       /\ sent' = sent
                  ELSE /\ sent' = Append(sent, request_url(arg))
                       /\ pc' = "await_get"
                       /\ ret' = ret
  /\ UNCHANGED <<fn, arg>>

\* send_query after its await: the response or the transport error
SendQueryResponse ==
  /\ pc = "await_get" /\ fn = "send_query"
  /\ \E r \in Responses :
       /\ ret' = send_query_outcome(r)
       /\ pc' = "done"
  /\ UNCHANGED <<fn, arg, validated_params, sent>>

Next ==
  \/ ValidateSearchQuery
  \/ ValidateIdList
  \/ ValidateStart
  \/ ValidateMaxResults
  \/ ValidateSortBy
  \/ ValidateSortOrder
  \/ ValidateArxivParams
  \/ SendQueryValidate
  \/ SendQueryResponse

Spec == Init /\ [][Next]_vars

(***************************************************************************)
(* Failure kinds: the texts of the raised messages, by the check that      *)
(* raises them                                                             *)
(***************************************************************************)
HasPrefix(s, p) == Len(s) >= Len(p) /\ SubSeq(s, 1, Len(p)) = p
After(s, p) == SubSeq(s, Len(p) + 1, Len(s))

FailureKind(msg) ==
  IF msg = "Either 'search_query' or 'id_list' parameter is required"
  THEN "missing-required"
  ELSE IF HasPrefix(msg, "Invalid field prefix '") THEN "unknown-field-prefix"
  ELSE IF HasPrefix(msg, "Boolean operator '") THEN "malformed-boolean-operator"
  ELSE IF msg = "Empty arXiv ID in id_list"
          \/ HasPrefix(msg, "Invalid arXiv ID format: '")
  THEN "malformed-identifier"
  ELSE IF msg \in {"'start' must be a valid integer",
                   "'max_results' must be a valid integer"}
  THEN "malformed-integer"
  ELSE IF msg \in {"'start' must be non-negative",
                   "'max_results' must be positive",
                   "'max_results' cannot exceed 2000 (arXiv API limit)"}
  THEN "out-of-range-integer"
  ELSE IF HasPrefix(msg, "Invalid 'sortBy' value '")
          \/ HasPrefix(msg, "Invalid 'sortOrder' value '")
  THEN "invalid-enum-value"
  ELSE IF HasPrefix(msg, "Unknown parameters: ") THEN "unknown-parameter"
  ELSE "other"

Wrapper == "Parameter validation failed: "

\* the kind of the failure of a finished call, "none" when it returned
Kind == IF ret.tag = "raise" THEN FailureKind(ret.msg) ELSE "none"

\* the same for validate_arxiv_params, which wraps the message
ParamsKind ==
  IF ret.tag = "raise" /\ HasPrefix(ret.msg, Wrapper)
  THEN FailureKind(After(ret.msg, Wrapper))
  ELSE IF ret.tag = "raise" THEN "other" ELSE "none"

Done(f) == pc = "done" /\ fn = f

RecognizedSix ==
  {"search_query", "id_list", "start", "max_results", "sortBy", "sortOrder"}

\* the parsed query of the call's argument and its keys outside the six
Parsed == parse_qs(arg)
UnrecognizedKeys == (DOMAIN Parsed) \ RecognizedSix
RequiredPresent == "search_query" \in DOMAIN Parsed \/ "id_list" \in DOMAIN Parsed

\* whether the validator of a recognized parameter accepts a value
FieldAccepted(name, value) ==
  CASE name = "search_query" ->
         \A ops \in OperatorOrders : validate_search_query(value, ops).tag = "return"
    [] name = "id_list" -> validate_id_list(value).tag = "return"
    [] name = "start" -> validate_start(value).tag = "return"
    [] name = "max_results" -> validate_max_results(value).tag = "return"
    [] name = "sortBy" -> validate_sort_by(value).tag = "return"
    [] name = "sortOrder" -> validate_sort_order(value).tag = "return"

AllRecognizedAccepted ==
  \A name \in (DOMAIN Parsed) \cap RecognizedSix :
    FieldAccepted(name, Parsed[name][1])

\* the message names exactly the keys outside the six, each once
NamesUnrecognizedKeys ==
  \E order \in IterationOrders(UnrecognizedKeys) :
    ret.msg = Wrapper \o "Unknown parameters: " \o Join(order, ", ")

(***************************************************************************)
(* C1.  As claimed: whenever the query has a key outside the recognized    *)
(* six, validate_arxiv_params fails with unknown-parameter naming that     *)
(* key, whatever the other parameters are.                                 *)
(***************************************************************************)
C1_UnknownAlwaysReported ==
  Done("validate_arxiv_params") /\ UnrecognizedKeys # {}
    => ParamsKind = "unknown-parameter" /\ NamesUnrecognizedKeys

(***************************************************************************)
(* C1, amended.  Whenever the query has a key outside the recognized six,  *)
(* validate_arxiv_params fails; the failure is unknown-parameter, naming   *)
(* every such key, exactly when search_query or id_list is present and     *)
(* every recognized parameter present passes its validator; otherwise it   *)
(* is the failure of that earlier check.                                   *)
(***************************************************************************)
C1_UnknownReportedAfterOtherChecks ==
  Done("validate_arxiv_params") /\ UnrecognizedKeys # {}
    => /\ ret.tag = "raise"
       /\ IF RequiredPresent /\ AllRecognizedAccepted
          THEN ParamsKind = "unknown-parameter" /\ NamesUnrecognizedKeys
          ELSE ParamsKind \notin {"unknown-parameter", "none", "other"}

\* an unknown key beside a valid search_query is reported
C1_Witness ==
  /\ Done("validate_arxiv_params")
  /\ UnrecognizedKeys = {"foo"}
  /\ "search_query" \in DOMAIN Parsed
  /\ ParamsKind = "unknown-parameter"

(***************************************************************************)
(* C2.  Whenever neither search_query nor id_list is present (the empty    *)
(* query included), validate_arxiv_params fails with missing-required,     *)
(* whatever else the query holds: no other failure kind is reported.       *)
(***************************************************************************)
C2_MissingRequiredFirst ==
  Done("validate_arxiv_params") /\ ~RequiredPresent
    => ret = Raise(Wrapper \o "Either 'search_query' or 'id_list' parameter is required")

\* missing-required is reported for a query that also holds a value its
\* validator rejects and an unknown key
C2_Witness ==
  /\ Done("validate_arxiv_params")
  /\ ~RequiredPresent
  /\ UnrecognizedKeys # {}
  /\ ~AllRecognizedAccepted
  /\ ParamsKind = "missing-required"

(***************************************************************************)
(* Claim-side reading of a search query                                    *)
(***************************************************************************)
Keywords == {"AND", "OR", "ANDNOT"}

AllowedPrefixes == {"ti", "au", "abs", "co", "jr", "cat", "rn", "id", "all"}
AllowedPrefixList == "abs, all, au, cat, co, id, jr, rn, ti"

\* the positions at which sub occurs in s
Occurrences(s, sub) ==
  {i \in 1..(Len(s) - Len(sub) + 1) : SubSeq(s, i, i + Len(sub) - 1) = sub}

\* the occurrence of op at i has a space on both sides, or a plus sign on
\* both sides
Flanked(s, op, i) ==
  \E sep \in {" ", "+"} : At(s, i - 1) = sep /\ At(s, i + Len(op)) = sep

\* the prefix tokens of s: the maximal runs of word characters that a colon
\* follows
PrefixTokens(s) ==
  {SubSeq(s, i, j) : <<i, j>> \in
     {p \in (1..Len(s)) \X (1..Len(s)) :
        /\ p[1] <= p[2]
        /\ \A k \in p[1]..p[2] : At(s, k) \in WordChars
        /\ At(s, p[1] - 1) \notin WordChars
        /\ At(s, p[2] + 1) = ":"}}

PrefixesAllowed(s) == PrefixTokens(s) \subseteq AllowedPrefixes

\* the operator a malformed-boolean-operator message names
NamedOperator(msg) ==
  CHOOSE op \in Keywords \cup {"?"} :
    op # "?" => msg = "Boolean operator '" \o op
                       \o "' should be surrounded by spaces or + signs"

(***************************************************************************)
(* C3.  As claimed: a search_query holding an occurrence of the literal    *)
(* AND, OR or ANDNOT that is not flanked by spaces or by plus signs fails  *)
(* with malformed-boolean-operator.                                        *)
(***************************************************************************)
C3_UnflankedOccurrenceFails ==
  Done("validate_search_query")
    => \A op \in Keywords : \A i \in Occurrences(arg, op) :
         ~Flanked(arg, op, i) => Kind = "malformed-boolean-operator"

(***************************************************************************)
(* C3, amended.  A search_query whose field prefixes are all allowed, and  *)
(* which holds the literal AND, OR or ANDNOT with no flanked occurrence of *)
(* that keyword anywhere in the query, fails with                          *)
(* malformed-boolean-operator, naming a keyword that has no flanked        *)
(* occurrence in the query.                                                *)
(***************************************************************************)
C3_NoFlankedOccurrenceFails ==
  Done("validate_search_query") /\ PrefixesAllowed(arg)
    => \A op \in Keywords :
         /\ Occurrences(arg, op) # {}
         /\ \A i \in Occurrences(arg, op) : ~Flanked(arg, op, i)
         => /\ Kind = "malformed-boolean-operator"
            /\ NamedOperator(ret.msg) \in Keywords
            /\ \A i \in Occurrences(arg, NamedOperator(ret.msg)) :
                 ~Flanked(arg, NamedOperator(ret.msg), i)

\* an unflanked OR after an allowed field is rejected, naming OR
C3_Witness ==
  /\ Done("validate_search_query")
  /\ arg = "ti:aOR"
  /\ Kind = "malformed-boolean-operator"
  /\ NamedOperator(ret.msg) = "OR"

(***************************************************************************)
(* C4.  Each of AND, OR and ANDNOT is usable: two allowed fields joined by *)
(* one of them, flanked by spaces or by plus signs, pass                   *)
(* validate_search_query unchanged.                                        *)
(***************************************************************************)
C4_EachOperatorUsable ==
  Done("validate_search_query")
    => \A op \in Keywords : \A sep \in {" ", "+"} :
         arg = "ti:a" \o sep \o op \o sep \o "ti:a"
           => ret = Return(PyStr(arg))

(***************************************************************************)
(* C5.  A search_query whose field prefixes are all allowed and which      *)
(* holds no keyword in its literal uppercase form is not rejected with     *)
(* malformed-boolean-operator: it is returned unchanged.                   *)
(***************************************************************************)
C5_LowercaseLettersIgnored ==
  Done("validate_search_query") /\ PrefixesAllowed(arg)
    /\ (\A op \in Keywords : Occurrences(arg, op) = {})
    => ret = Return(PyStr(arg))

(***************************************************************************)
(* C6.  A search_query with a prefix token outside the allowed set fails   *)
(* with unknown-field-prefix, naming such a token and the allowed set;     *)
(* when every prefix token is allowed the failure is not                   *)
(* unknown-field-prefix.  Membership is case-sensitive.                    *)
(***************************************************************************)
C6_UnknownPrefixRejected ==
  Done("validate_search_query")
    => IF PrefixesAllowed(arg)
       THEN Kind # "unknown-field-prefix"
       ELSE \E t \in PrefixTokens(arg) \ AllowedPrefixes :
              ret = Raise("Invalid field prefix '" \o t
                          \o "'. Valid prefixes: " \o AllowedPrefixList)

\* an uppercase TI after an allowed field is rejected
C6_Witness ==
  /\ Done("validate_search_query")
  /\ arg = "ti:a AND TI:c"
  /\ ret = Raise("Invalid field prefix 'TI'. Valid prefixes: " \o AllowedPrefixList)

(***************************************************************************)
(* Claim-side reading of identifiers and integers                          *)
(***************************************************************************)
AllDigits(s) == s # "" /\ \A i \in 1..Len(s) : At(s, i) \in DigitSet

\* "" or 'v' and one or more digits
IsVersionSuffix(s) == s = "" \/ (At(s, 1) = "v" /\ AllDigits(Tail(s)))

\* 4 digits, '.', 4 to 5 digits, optional version
IsModernShape(m) ==
  \E n \in {4, 5} :
    /\ Len(m) >= 5 + n
    /\ AllDigits(SubSeq(m, 1, 4))
    /\ At(m, 5) = "."
    /\ AllDigits(SubSeq(m, 6, 5 + n))
    /\ IsVersionSuffix(SubSeq(m, 6 + n, Len(m)))

\* lowercase letters and hyphens
IsSubjectClass(s) ==
  s # "" /\ \A i \in 1..Len(s) : At(s, i) \in LowerSet \cup {"-"}

\* subject class, optional '.' and two uppercase letters
IsArchive(s) ==
  \/ IsSubjectClass(s)
  \/ /\ Len(s) >= 4
     /\ IsSubjectClass(SubSeq(s, 1, Len(s) - 3))
     /\ At(s, Len(s) - 2) = "."
     /\ At(s, Len(s) - 1) \in UpperSet /\ At(s, Len(s)) \in UpperSet

\* archive, '/', 7 digits, optional version
IsLegacyShape(m) ==
  \E p \in 1..Len(m) :
    /\ At(m, p) = "/"
    /\ IsArchive(SubSeq(m, 1, p - 1))
    /\ Len(m) >= p + 7
    /\ AllDigits(SubSeq(m, p + 1, p + 7))
    /\ IsVersionSuffix(SubSeq(m, p + 8, Len(m)))

WellFormedId(m) == m # "" /\ (IsLegacyShape(m) \/ IsModernShape(m))

\* the trimmed members of a comma-separated list
Members(s) == strip_each(split(s, ","))

\* the decimal numeral of a natural number, and of an integer
RECURSIVE NatNumeral(_)
NatNumeral(n) ==
  IF n < 10 THEN At(Digits, n + 1)
  ELSE NatNumeral(n \div 10) \o At(Digits, (n % 10) + 1)

Numeral(n) == IF n < 0 THEN "-" \o NatNumeral(0 - n) ELSE NatNumeral(n)

\* a plain base-10 integer string: an optional '-', then digits
IsPlainInteger(s) ==
  AllDigits(s) \/ (At(s, 1) = "-" /\ AllDigits(Tail(s)))

\* the digits of a plain integer string without leading zeros
RECURSIVE DropZeros(_)
DropZeros(d) == IF Len(d) > 1 /\ At(d, 1) = "0" THEN DropZeros(Tail(d)) ELSE d

\* n is the value of the plain integer string s
Denotes(s, n) ==
  IF At(s, 1) = "-"
  THEN n <= 0 /\ NatNumeral(0 - n) = DropZeros(Tail(s))
  ELSE n >= 0 /\ NatNumeral(n) = DropZeros(s)

\* a string no reading takes for an integer: no digit, or a letter
NoInteger(s) ==
  \/ \A i \in 1..Len(s) : At(s, i) \notin DigitSet
  \/ \E i \in 1..Len(s) : At(s, i) \in LowerSet \cup UpperSet

(***************************************************************************)
(* C7.  validate_id_list returns its input unchanged if and only if every  *)
(* trimmed comma-separated member is non-empty and of the legacy or the    *)
(* modern shape; otherwise it fails with malformed-identifier for the      *)
(* first member, in list order, that is empty or of neither shape.         *)
(***************************************************************************)
C7_IdListAcceptedIffWellFormed ==
  Done("validate_id_list")
    => LET ms == Members(arg)
           bad == {i \in 1..Len(ms) : ~WellFormedId(ms[i])}
       IN IF bad = {}
          THEN ret = Return(PyStr(arg))
          ELSE LET i == CHOOSE k \in bad : \A j \in bad : k <= j
               IN ret = Raise(IF ms[i] = "" THEN "Empty arXiv ID in id_list"
                              ELSE "Invalid arXiv ID format: '" \o ms[i]
                                   \o "'. Expected formats: 'YYMM.NNNN[vN]' or 'subject-class/YYMMnnn[vN]'")

\* a legacy and a modern identifier are accepted together
C7_Witness ==
  /\ Done("validate_id_list")
  /\ arg = "math.GT/0309136,2301.00001"
  /\ ret = Return(PyStr(arg))

\* a well-formed member followed by an ill-formed one is rejected for the
\* second
C7_WitnessRejected ==
  /\ Done("validate_id_list")
  /\ arg = "2301.00001,2301."
  /\ Kind = "malformed-identifier"

(***************************************************************************)
(* C8.  validate_start returns n for an integer string of value n >= 0 and *)
(* fails with out-of-range-integer for n < 0; validate_max_results returns *)
(* n for 1 <= n <= 2000 and fails with out-of-range-integer for n <= 0 or  *)
(* n > 2000; both fail with malformed-integer exactly for the strings that *)
(* are not integers, so an out-of-range value is never reported as         *)
(* malformed.                                                              *)
(***************************************************************************)
IntegerOutcome(InRange(_), lowest, too_low, too_high) ==
  LET parsed_int == py_int(arg)
  IN /\ Kind \in {"none", "malformed-integer", "out-of-range-integer"}
     /\ Kind = "malformed-integer" <=> parsed_int.tag = "raise"
     /\ NoInteger(arg) => Kind = "malformed-integer"
     /\ IsPlainInteger(arg) =>
          /\ Kind # "malformed-integer"
          /\ Denotes(arg, parsed_int.value.v)
     /\ Kind = "none" =>
          /\ ret = Return(PyInt(parsed_int.value.v))
          /\ InRange(ret.value.v)
     /\ Kind = "out-of-range-integer" =>
          /\ ~InRange(parsed_int.value.v)
          /\ ret.msg = IF parsed_int.value.v < lowest THEN too_low
                       ELSE too_high

C8_IntegersAcceptedInRange ==
  /\ Done("validate_start") =>
       IntegerOutcome(LAMBDA n : n >= 0, 0,
                      "'start' must be non-negative", "")
  /\ Done("validate_max_results") =>
       IntegerOutcome(LAMBDA n : 1 <= n /\ n <= 2000, 1,
                      "'max_results' must be positive",
                      "'max_results' cannot exceed 2000 (arXiv API limit)")

\* the upper limit itself is accepted
C8_Witness ==
  /\ Done("validate_max_results")
  /\ arg = "2000"
  /\ ret = Return(PyInt(2000))

(***************************************************************************)
(* C9.  validate_sort_by and validate_sort_order return their input        *)
(* unchanged if and only if it is exactly one of the allowed values        *)
(* (relevance, lastUpdatedDate, submittedDate; ascending, descending);     *)
(* any other input fails with invalid-enum-value, the message naming the   *)
(* value and listing all allowed options in sorted order.                  *)
(***************************************************************************)
EnumOutcome(allowed, parameter, options) ==
  IF arg \in allowed
  THEN ret = Return(PyStr(arg))
  ELSE /\ Kind = "invalid-enum-value"
       /\ ret = Raise("Invalid '" \o parameter \o "' value '" \o arg
                      \o "'. Valid options: " \o options)

C9_EnumsExactMembership ==
  /\ Done("validate_sort_by") =>
       EnumOutcome({"relevance", "lastUpdatedDate", "submittedDate"}, "sortBy",
                   "lastUpdatedDate, relevance, submittedDate")
  /\ Done("validate_sort_order") =>
       EnumOutcome({"ascending", "descending"}, "sortOrder",
                   "ascending, descending")

\* an allowed value in another case is refused with the options listed
C9_Witness ==
  /\ Done("validate_sort_by")
  /\ arg = "Relevance"
  /\ Kind = "invalid-enum-value"

(***************************************************************************)
(* C10.  When validate_arxiv_params succeeds, the keys of the returned     *)
(* mapping are exactly the recognized parameter names present in the       *)
(* parsed query, search_query or id_list is among them, start and          *)
(* max_results are held as integers and every other field as its first    *)
(* parsed string value unchanged, and every value is one its field         *)
(* validator accepts; search_query=ti:quantum&max_results=5 yields         *)
(* {search_query: 'ti:quantum', max_results: 5}.                           *)
(***************************************************************************)
C10_ValidatedMappingShape ==
  Done("validate_arxiv_params") /\ ret.tag = "return"
    => /\ ret.value.type = "dict"
       /\ LET validated == ret.value.v
              first(name) == Parsed[name][1]
          IN /\ DOMAIN validated = (DOMAIN Parsed) \cap RecognizedSix
             /\ DOMAIN validated \cap {"search_query", "id_list"} # {}
             /\ \A name \in DOMAIN validated :
                  /\ FieldAccepted(name, first(name))
                  /\ IF name \in {"start", "max_results"}
                     THEN /\ validated[name].type = "int"
                          /\ validated[name] = py_int(first(name)).value
                          /\ IsPlainInteger(first(name))
                               => Denotes(first(name), validated[name].v)
                          /\ validated[name].v >= (IF name = "start" THEN 0 ELSE 1)
                          /\ name = "max_results" => validated[name].v <= 2000
                     ELSE validated[name] = PyStr(first(name))
       /\ arg = "search_query=ti:quantum&max_results=5"
            => ret = Return(PyDict([search_query |-> PyStr("ti:quantum"),
                                    max_results |-> PyInt(5)]))

\* the end-to-end example succeeds with both fields
C10_Witness ==
  /\ Done("validate_arxiv_params")
  /\ arg = "search_query=ti:quantum&max_results=5"
  /\ ret.tag = "return"
  /\ DOMAIN ret.value.v = {"search_query", "max_results"}

(***************************************************************************)
(* C11.  send_query issues the GET to the search API only after            *)
(* validate_arxiv_params has succeeded on the same raw query string; the   *)
(* request URL is built from that raw string, not from the validated       *)
(* mapping; when validation fails no request is issued and the call ends   *)
(* with an error that carries the validation message.                      *)
(***************************************************************************)
\* the raw query of the call is one validation accepts
RawQueryValid ==
  RequiredPresent /\ AllRecognizedAccepted /\ UnrecognizedKeys = {}

C11_ValidationGatesRequest ==
  fn = "send_query"
    => /\ sent # <<>> =>
            /\ RawQueryValid
            /\ validated_params.tag = "return"
            /\ DOMAIN validated_params.value.v = DOMAIN Parsed
            /\ sent = <<"http://export.arxiv.org/api/query?" \o arg>>
       /\ pc # "call" /\ ~RawQueryValid =>
            /\ sent = <<>>
            /\ pc = "done"
            /\ validated_params.tag = "raise"
            /\ HasPrefix(validated_params.msg, Wrapper)
            /\ ret = Raise("Invalid query parameters: " \o validated_params.msg)
       /\ pc # "call" /\ RawQueryValid => Len(sent) = 1

\* a valid query whose raw form differs from its decoded values is sent as
\* written and answered
C11_Witness ==
  /\ Done("send_query")
  /\ arg = "search_query=ti:a&search_query=ti:a+AND+ti:b"
  /\ sent = <<"http://export.arxiv.org/api/query?search_query=ti:a&search_query=ti:a+AND+ti:b">>
  /\ ret = Return(PyStr("<feed></feed>"))

\* a rejected query ends without a request
C11_WitnessRejected ==
  /\ Done("send_query")
  /\ arg = "max_results=abc"
  /\ sent = <<>>
  /\ ret = Raise("Invalid query parameters: Parameter validation failed: Either 'search_query' or 'id_list' parameter is required")

(***************************************************************************)
(* C12.  When the unknown-parameter guard fails, its message names all     *)
(* keys of the parsed query outside the recognized set, each exactly once, *)
(* comma-joined in the order in which they were encountered in the raw     *)
(* query string, so the same input always produces the same message.       *)
(***************************************************************************)
\* the names of a sequence without repetitions, in order of first occurrence
RECURSIVE FirstOccurrences(_, _)
FirstOccurrences(names, seen) ==
  IF Len(names) = 0 THEN <<>>
  ELSE IF names[1] \in seen THEN FirstOccurrences(Tail(names), seen)
  ELSE <<names[1]>> \o FirstOccurrences(Tail(names), seen \cup {names[1]})

\* the unrecognized keys in the order the raw query string holds them
UnrecognizedAsEncountered ==
  LET pairs == parse_qsl(arg)
      names == [i \in 1..Len(pairs) |-> pairs[i][1]]
  IN FirstOccurrences(names, RecognizedSix)

C12_UnknownNamedAsEncountered ==
  Done("validate_arxiv_params") /\ ParamsKind = "unknown-parameter"
    => ret.msg = Wrapper \o "Unknown parameters: "
                 \o Join(UnrecognizedAsEncountered, ", ")

(***************************************************************************)
(* C13.  validate_arxiv_params is fail-fast with a fixed check order that  *)
(* does not depend on the order of the parameters in the raw string:       *)
(* missing-required, then the validators of search_query, id_list, start,  *)
(* max_results, sortBy, sortOrder in that order, then the unknown-         *)
(* parameter guard.  Exactly one failure is reported, that of the earliest *)
(* failing check, and it carries the validator's own message.              *)
(***************************************************************************)
CheckOrder ==
  <<"search_query", "id_list", "start", "max_results", "sortBy", "sortOrder">>

\* the messages the validator of a recognized parameter can fail with on a
\* value
OwnMessages(name, value) ==
  LET outcomes ==
        CASE name = "search_query" ->
               {validate_search_query(value, ops) : ops \in OperatorOrders}
          [] name = "id_list" -> {validate_id_list(value)}
          [] name = "start" -> {validate_start(value)}
          [] name = "max_results" -> {validate_max_results(value)}
          [] name = "sortBy" -> {validate_sort_by(value)}
          [] name = "sortOrder" -> {validate_sort_order(value)}
  IN {o.msg : o \in {x \in outcomes : x.tag = "raise"}}

\* the positions in CheckOrder of the present parameters whose validator fails
FailingChecks ==
  {i \in 1..6 : /\ CheckOrder[i] \in DOMAIN Parsed
                /\ ~FieldAccepted(CheckOrder[i], Parsed[CheckOrder[i]][1])}

C13_EarliestFailingCheckReported ==
  Done("validate_arxiv_params")
    => IF ~RequiredPresent
       THEN ParamsKind = "missing-required"
       ELSE IF FailingChecks # {}
       THEN LET i == CHOOSE k \in FailingChecks : \A j \in FailingChecks : k <= j
                name == CheckOrder[i]
            IN /\ ret.tag = "raise"
               /\ HasPrefix(ret.msg, Wrapper)
               /\ After(ret.msg, Wrapper) \in OwnMessages(name, Parsed[name][1])
       ELSE IF UnrecognizedKeys # {}
       THEN ParamsKind = "unknown-parameter"
       ELSE ret.tag = "return"

\* sortBy comes first in the raw string and max_results is the one reported
C13_Witness ==
  /\ Done("validate_arxiv_params")
  /\ arg = "search_query=ti:a&sortBy=random&max_results=abc"
  /\ ret = Raise(Wrapper \o "'max_results' must be a valid integer")

(***************************************************************************)
(* Claim-side reading of repeated names in a raw query string              *)
(***************************************************************************)
\* the decoded name of a raw field: what precedes its first '='
FieldName(field) == unquote(plus_to_space(split_once(field, "=")[1]))

\* whether a raw field carries a non-empty value
HasValue(field) ==
  LET nv == split_once(field, "=") IN Len(nv) = 2 /\ nv[2] # ""

\* the fields without those whose name an earlier field has already
\* claimed; Claims(field) tells whether a field claims its name
RECURSIVE DropLater(_, _, _)
DropLater(fields, Claims(_), claimed) ==
  IF Len(fields) = 0 THEN <<>>
  ELSE LET f == fields[1]
       IN IF f # "" /\ FieldName(f) \in claimed
          THEN DropLater(Tail(fields), Claims, claimed)
          ELSE <<f>> \o DropLater(Tail(fields), Claims,
                                  IF f # "" /\ Claims(f)
                                  THEN claimed \cup {FieldName(f)}
                                  ELSE claimed)

RawFields == split(arg, "&")

\* the raw query with every occurrence of a name after its first removed
WithoutLaterOccurrences ==
  Join(DropLater(RawFields, LAMBDA f : TRUE, {}), "&")

\* the raw query with every occurrence of a name after its first non-empty
\* one removed
WithoutLaterThanFirstValue ==
  Join(DropLater(RawFields, HasValue, {}), "&")

\* every outcome validate_arxiv_params can have on a raw query
Outcomes(params) ==
  LET parsed == parse_qs(params)
  IN {validate_parsed(parsed, ops, unknown_order) :
        ops \in OperatorOrders,
        unknown_order \in IterationOrders(unknown_params(parsed))}

(***************************************************************************)
(* C14.  As claimed: when a parameter name occurs more than once in the    *)
(* raw query string, the outcome of validate_arxiv_params is that of the   *)
(* query with all later occurrences of the name removed.                   *)
(***************************************************************************)
C14_FirstOccurrenceWins ==
  Done("validate_arxiv_params") /\ WithoutLaterOccurrences # arg
    => ret \in Outcomes(WithoutLaterOccurrences)

(***************************************************************************)
(* C14, amended.  When a parameter name occurs more than once in the raw   *)
(* query string, the outcome of validate_arxiv_params is that of the query *)
(* with all occurrences of the name after its first non-empty one removed, *)
(* even when a later occurrence carries an invalid value:                  *)
(* search_query=ti:a&max_results=5&max_results=abc succeeds with           *)
(* max_results 5.                                                          *)
(***************************************************************************)
C14_FirstValueWins ==
  Done("validate_arxiv_params")
    => /\ WithoutLaterThanFirstValue # arg
            => ret \in Outcomes(WithoutLaterThanFirstValue)
       /\ arg = "search_query=ti:a&max_results=5&max_results=abc"
            => ret = Return(PyDict([search_query |-> PyStr("ti:a"),
                                    max_results |-> PyInt(5)]))

\* the example: the later, invalid max_results is not looked at
C14_Witness ==
  /\ Done("validate_arxiv_params")
  /\ arg = "search_query=ti:a&max_results=5&max_results=abc"
  /\ WithoutLaterThanFirstValue = "search_query=ti:a&max_results=5"
  /\ ret.tag = "return"

(***************************************************************************)
(* C15.  A parameter whose value is empty, or that has no '=' at all, is   *)
(* dropped by the query parser and treated as absent by every later check: *)
(* search_query= alone fails with missing-required, and                    *)
(* search_query=ti:a&max_results= and search_query=ti:a&foo= succeed       *)
(* without a max_results key and without an unknown-parameter failure.     *)
(***************************************************************************)
\* the raw query without the fields that carry no value
WithoutBlankFields == Join(SelectSeq(RawFields, HasValue), "&")

C15_BlankFieldsAbsent ==
  Done("validate_arxiv_params")
    => /\ DOMAIN Parsed =
            {FieldName(RawFields[i]) :
               i \in {k \in 1..Len(RawFields) : HasValue(RawFields[k])}}
       /\ WithoutBlankFields # arg => ret \in Outcomes(WithoutBlankFields)
       /\ arg = "search_query=" =>
            ret = Raise(Wrapper \o "Either 'search_query' or 'id_list' parameter is required")
       /\ arg \in {"search_query=ti:a&max_results=", "search_query=ti:a&foo=",
                   "search_query=ti:a&foo"} =>
            ret = Return(PyDict([search_query |-> PyStr("ti:a")]))

\* an empty max_results beside a valid search_query: success without the key
C15_Witness ==
  /\ Done("validate_arxiv_params")
  /\ arg = "search_query=ti:a&max_results="
  /\ WithoutBlankFields = "search_query=ti:a"
  /\ ret.tag = "return"
  /\ "max_results" \notin DOMAIN ret.value.v

====
